---- MODULE Spec2Model ----
(***************************************************************************)
(* The upload-and-import-completion workflow of the two publishing        *)
(* scripts:                                                                *)
(*   "publisher" : powerbi_publisher.py      (PowerBIAuth, PowerBIClient)  *)
(*   "report"    : publish_powerbi_report.py (PowerBIPublisher)            *)
(* A behaviour is one run of a script's main() in publish mode, from the    *)
(* parsed arguments to the end of the run: the workspace is resolved, the  *)
(* file is uploaded, the import is polled.                                 *)
(* The remote service (its HTTP answers, the network failing) is the       *)
(* nondeterministic environment.  The clock `now` is in seconds; it is     *)
(* advanced by time.sleep only (a request takes no time).                  *)
(***************************************************************************)
EXTENDS Integers, Sequences, FiniteSets, TLC

VARIABLES
    script,         \* which program runs
    pc,             \* position of the run in the code
    now,            \* time.time(), seconds
    file,           \* the artifact as the run first found it: [exists, suffix, size]
    workspace_id,   \* 0 is None, otherwise the identifier
    workspace_name, \* args.workspace (<<>> is None) until main has resolved it
    workspaces,     \* the list the last 200 answer to GET /groups carried
    reported,       \* the workspace names the run put out with "not found"
    timeout,        \* parameter timeout of wait_for_import / _wait_for_import
    access_token,   \* PowerBIAuth.access_token (0 is None) / PowerBIPublisher.access_token
    token_expiry,   \* PowerBIAuth.token_expiry
    start_time,     \* start_time of the polling loop
    attempt,        \* loop variable of _make_request
    response,       \* the last HTTP response the run received
    status,         \* local `status` of the polling loop
    import_id,      \* id of the import (0 is None)
    wait_result,    \* how wait_for_import / _wait_for_import ended
    result,         \* how the run ended
    steps,          \* history: the upload requests sent, in order
    fetches,        \* history: status requests sent
    last_fetch,     \* history: the status record the last 200 status answer carried
    exchanges,      \* history: token exchanges sent to the identity endpoint
    mr_log,         \* history: the attempts of the current _make_request call
    listings,       \* history: GET /groups requests sent
    token_call,     \* history: the last call of PowerBIAuth.get_token
    auth_calls,     \* history: calls of get_token / authenticate
    auth_requests,  \* history: requests sent with an Authorization header
    targets         \* history: the import endpoints the run has sent requests to

vars == <<script, pc, now, file, workspace_id, workspace_name, workspaces, reported,
          timeout, access_token, token_expiry,
          start_time, attempt, response, status, import_id, wait_result, result,
          steps, fetches, last_fetch, exchanges, mr_log,
          listings, token_call, auth_calls, auth_requests, targets>>

----------------------------------------------------------------------------
(* Program constants *)

poll_interval == 5
check_interval == 5
max_retries == 3
retry_delay == 2
TokenMargin == 60
DefaultExpiresIn == 3600
ThresholdMb == 1024
MiB == 1024 * 1024

(* Bounds of the model *)

MaxTimeout == 6
MaxRetryAfter == 7
MaxId == 1
ShortLifetime == 65
MaxWorkspaces == 2

----------------------------------------------------------------------------
(* Inputs and the environment's answers *)

Scripts == {"publisher", "report"}

FileSizes == {1, ThresholdMb * MiB, ThresholdMb * MiB + 1}

\* pbix_path.suffix, as the sequence of its characters.
DotPbix == <<".", "p", "b", "i", "x">>
DotPbixMixed == <<".", "P", "b", "i", "X">>
DotTxt == <<".", "t", "x", "t">>

\* The artifact: there or not, named *.pbix in the three sizes around the
\* threshold, or a small file named *.PbiX or *.txt.
Files ==
    [exists : BOOLEAN, suffix : {DotPbix}, size : FileSizes]
        \cup [exists : BOOLEAN, suffix : {DotPbixMixed, DotTxt}, size : {1}]

\* The run has not looked at the file yet.
NoFile == [exists |-> FALSE, suffix |-> <<>>, size |-> 0]

Timeouts == {-1, 0, 1, MaxTimeout}

HttpStatuses == {200, 201, 202, 204, 400, 429, 500}

ImportStates == {"Importing", "Publishing", "Succeeded", "Failed", "Unknown", "missing"}

IdLists == {<<>>} \cup {<<i>> : i \in 1..MaxId}

\* The status records the service answers with: the reports and datasets of an
\* import are listed once it has succeeded.
StatusRecords ==
    {[importState |-> s, reports |-> <<>>, datasets |-> <<>>] :
        s \in ImportStates \ {"Succeeded"}}
        \cup [importState : {"Succeeded"}, reports : IdLists, datasets : IdLists]

NoStatus == [importState |-> "none", reports |-> <<>>, datasets |-> <<>>]

NoHeader == [kind |-> "absent", value |-> 0]

RetryAfterHeaders ==
    {NoHeader, [kind |-> "text", value |-> 0]}
        \cup {[kind |-> "int", value |-> v] : v \in {-1, MaxRetryAfter}}

NoResponse == [kind |-> "none", status_code |-> 0, retry_after |-> NoHeader,
               id |-> 0, body |-> NoStatus]

Http(code, hdr, id, body) ==
    [kind |-> "http", status_code |-> code, retry_after |-> hdr, id |-> id, body |-> body]

NetworkError == [kind |-> "exception", status_code |-> 0, retry_after |-> NoHeader,
                 id |-> 0, body |-> NoStatus]

UploadResponses ==
    {Http(c, NoHeader, i, NoStatus) : c \in HttpStatuses, i \in {0, 1}} \cup {NetworkError}

\* The answers with nothing of interest in their body or headers; to GET /groups
\* a 200 of them carries one of WorkspaceLists.
PlainResponses == {Http(c, NoHeader, 0, NoStatus) : c \in HttpStatuses} \cup {NetworkError}

StatusResponses ==
    {Http(200, NoHeader, 0, b) : b \in StatusRecords}
        \cup {Http(c, NoHeader, 0, NoStatus) : c \in HttpStatuses \ {200, 429}}
        \cup {Http(429, h, 0, NoStatus) : h \in RetryAfterHeaders}
        \cup {NetworkError}

\* The identity endpoint's answers: a token with a lifetime of 0 seconds, of
\* TokenMargin + 5 or TokenMargin + 6 seconds (within the margin at the second
\* poll or just outside it), or with no expires_in; a rejection; no answer.
IdpResponses ==
    {[kind |-> "ok", has_expires_in |-> TRUE, expires_in |-> e] :
        e \in {0, ShortLifetime, ShortLifetime + 1}}
        \cup {[kind |-> "ok", has_expires_in |-> FALSE, expires_in |-> 0],
              [kind |-> "rejected", has_expires_in |-> FALSE, expires_in |-> 0],
              [kind |-> "exception", has_expires_in |-> FALSE, expires_in |-> 0]}

\* Workspace names, as the sequences of their characters: two that differ in
\* letter case only, twice, and one that is a prefix of another.
Names == {<<"s">>, <<"S">>, <<"s", "a">>, <<"S", "A">>}

\* The "value" of an answer to GET /groups: the workspaces in the order the
\* service lists them, each with its own id.
Listed(ns) == [i \in DOMAIN ns |-> [name |-> ns[i], id |-> i]]

WorkspaceLists == {Listed(ns) : ns \in UNION {[1..n -> Names] : n \in 0..MaxWorkspaces}}

\* What acquire_token_for_client hands back, or the credentials missing at all.
MsalResults == {"access_token", "error", "missing_credentials"}

Running == [kind |-> "running", error |-> "none", value |-> NoStatus]
Returned(v) == [kind |-> "return", error |-> "none", value |-> v]
Raised(e) == [kind |-> "raise", error |-> e, value |-> NoStatus]

----------------------------------------------------------------------------
(* PowerBIAuth.get_token *)

\* Mutant: the cache is never used.
TokenIsCached_Never(tok, exp, t) == FALSE

\* Mutant: a token with exactly the margin left is still reused.
TokenIsCached_AtMargin(tok, exp, t) == tok # 0 /\ t <= exp - TokenMargin

\* Mutant: a token is reused until it expires.
TokenIsCached_NoMargin(tok, exp, t) == tok # 0 /\ t < exp

\* The cached token is reused: `self.access_token and time.time() < self.token_expiry - 60`.
TokenIsCached(tok, exp, t) == tok # 0 /\ t < exp - TokenMargin

\* Mutant: token_data["expires_in"] with nothing in its place when it is missing.
Lifetime_NoDefault(idp) == idp.expires_in

\* token_data.get("expires_in", 3600)
Lifetime(idp) == IF idp.has_expires_in THEN idp.expires_in ELSE DefaultExpiresIn

\* Mutant: a rejected exchange is not raised, the request goes out without a token.
get_token_SendsAnyway(tok, exp, t, idp, fresh) ==
    IF tok # 0 /\ t < exp - TokenMargin
    THEN [ok |-> TRUE, error |-> "none", token |-> tok,
          access_token |-> tok, token_expiry |-> exp, calls |-> 0]
    ELSE IF idp.kind = "exception"
    THEN [ok |-> FALSE, error |-> "RequestException", token |-> 0,
          access_token |-> tok, token_expiry |-> exp, calls |-> 1]
    ELSE IF idp.kind # "ok"
    THEN [ok |-> TRUE, error |-> "none", token |-> 0,
          access_token |-> tok, token_expiry |-> exp, calls |-> 1]
    ELSE [ok |-> TRUE, error |-> "none", token |-> fresh,
          access_token |-> fresh, token_expiry |-> t + Lifetime(idp), calls |-> 1]

\* Mutant: a rejected exchange empties the cache.
get_token_ForgetsOnFailure(tok, exp, t, idp, fresh) ==
    IF tok # 0 /\ t < exp - TokenMargin
    THEN [ok |-> TRUE, error |-> "none", token |-> tok,
          access_token |-> tok, token_expiry |-> exp, calls |-> 0]
    ELSE IF idp.kind = "exception"
    THEN [ok |-> FALSE, error |-> "RequestException", token |-> 0,
          access_token |-> tok, token_expiry |-> exp, calls |-> 1]
    ELSE IF idp.kind # "ok"
    THEN [ok |-> FALSE, error |-> "AuthenticationFailed", token |-> 0,
          access_token |-> 0, token_expiry |-> 0, calls |-> 1]
    ELSE [ok |-> TRUE, error |-> "none", token |-> fresh,
          access_token |-> fresh, token_expiry |-> t + Lifetime(idp), calls |-> 1]

\* get_token with the cache <<tok, exp>> at time t, the identity endpoint answering idp;
\* fresh is the token a successful exchange hands out.
get_token(tok, exp, t, idp, fresh) ==
    IF TokenIsCached(tok, exp, t)
    THEN [ok |-> TRUE, error |-> "none", token |-> tok,
          access_token |-> tok, token_expiry |-> exp, calls |-> 0]
    ELSE IF idp.kind = "exception"
    THEN [ok |-> FALSE, error |-> "RequestException", token |-> 0,
          access_token |-> tok, token_expiry |-> exp, calls |-> 1]
    ELSE IF idp.kind # "ok"
    THEN [ok |-> FALSE, error |-> "AuthenticationFailed", token |-> 0,
          access_token |-> tok, token_expiry |-> exp, calls |-> 1]
    ELSE [ok |-> TRUE, error |-> "none", token |-> fresh,
          access_token |-> fresh, token_expiry |-> t + Lifetime(idp), calls |-> 1]

----------------------------------------------------------------------------
(* str.lower() *)

\* The upper-case letters of the model's alphabet and their lower-case forms.
UpperLetters == <<"A", "B", "I", "P", "S", "T", "X">>
LowerLetters == <<"a", "b", "i", "p", "s", "t", "x">>

\* str.lower() of one character: a letter is folded, any other character is kept.
LowerChar(c) ==
    IF \E k \in DOMAIN UpperLetters : UpperLetters[k] = c
    THEN LowerLetters[CHOOSE k \in DOMAIN UpperLetters : UpperLetters[k] = c]
    ELSE c

\* str.lower()
lower(name) == [i \in DOMAIN name |-> LowerChar(name[i])]

----------------------------------------------------------------------------
(* Decisions of the upload *)

\* An endpoint of the REST API: under /groups/{group} or un-scoped (the
\* caller's own workspace), and its path below that.
GroupEndpoint(wid, path) == [scoped |-> TRUE, group |-> wid, path |-> path]
MyEndpoint(path) == [scoped |-> FALSE, group |-> 0, path |-> path]

\* import_pbix: `if workspace_id: endpoint = f"/groups/{workspace_id}/imports"`,
\* else "/imports".
ImportEndpoint(wid) ==
    IF wid # 0 THEN GroupEndpoint(wid, "imports") ELSE MyEndpoint("imports")

\* _import_large_pbix, step 1.
TempLocationEndpoint(wid) ==
    IF wid # 0 THEN GroupEndpoint(wid, "imports/createTemporaryUploadLocation")
    ELSE MyEndpoint("imports/createTemporaryUploadLocation")

\* _import_large_pbix, step 3.
BlobImportEndpoint(wid) ==
    IF wid # 0 THEN GroupEndpoint(wid, "imports") ELSE MyEndpoint("imports")

\* Mutant: the status is always asked of the caller's own workspace.
StatusEndpoint_Unscoped(wid) == MyEndpoint("imports/{import_id}")

\* get_import_status.
StatusEndpoint(wid) ==
    IF wid # 0 THEN GroupEndpoint(wid, "imports/{import_id}")
    ELSE MyEndpoint("imports/{import_id}")

\* publish_report: f"groups/{workspace_id}/imports?..."
ReportImportEndpoint(wid) == GroupEndpoint(wid, "imports")

\* _wait_for_import: f"groups/{workspace_id}/imports/{import_id}"
ReportStatusEndpoint(wid) == GroupEndpoint(wid, "imports/{import_id}")

\* Mutant: the suffix is not looked at.
SuffixOk_AnySuffix(suffix) == TRUE

\* `pbix_path.suffix.lower() == ".pbix"`
SuffixOk(suffix) == lower(suffix) = DotPbix

\* file_size_mb = file_size / (1024 * 1024), a float division by a power of two:
\* exact, so the quotient is whole + rest/MiB.
file_size_mb(size) == [whole |-> size \div MiB, rest |-> size % MiB]

\* `file_size_mb > 1024`
ExceedsThreshold(mb) == mb.whole > ThresholdMb \/ (mb.whole = ThresholdMb /\ mb.rest > 0)

\* import_pbix hands the file to _import_large_pbix; publish_report has no such branch.
UsesStagedPath(prog, size) ==
    IF prog = "publisher" THEN ExceedsThreshold(file_size_mb(size)) ELSE FALSE

\* The status codes the multipart POST is accepted with.
UploadAccepted(prog, code) ==
    IF prog = "publisher" THEN code \in {200, 201, 202} ELSE code \in {200, 202}

\* Mutant: the answer to createTemporaryUploadLocation is not looked at.
TempLocationAccepted_Unchecked(code) == TRUE

\* `response.status_code != 200` after createTemporaryUploadLocation
TempLocationAccepted(code) == code = 200

\* Mutant: only a server error of the blob store stops the upload.
BlobAccepted_Below500(code) == code < 500

\* `blob_response.status_code not in [200, 201]`
BlobAccepted(code) == code \in {200, 201}

\* `response.status_code not in [200, 201, 202]` after the import from the blob
BlobImportAccepted(code) == code \in {200, 201, 202}

----------------------------------------------------------------------------
(* Decisions of the polling loop *)

\* Mutant: main always waits for the import.
WaitsForImport_Always(id) == TRUE

\* `if args.wait and import_id`, args.wait being always True.
WaitsForImport(id) == id # 0

\* Mutant: every 2xx answer to the status request is read as a status.
StatusAccepted_Any2xx(code) == code >= 200 /\ code <= 299

\* `if response.status_code != 200: raise` after the status request.
StatusAccepted(code) == code = 200

\* Mutant: the loop is entered once whatever the timeout.
PollContinues_Inclusive(t, start, limit) == t - start <= limit

\* `while time.time() - start_time < timeout`
PollContinues(t, start, limit) == t - start < limit

\* status.get("importState", "Unknown") / status.get('importState')
ImportStateOf(prog, st) ==
    IF st.importState = "missing"
    THEN (IF prog = "publisher" THEN "Unknown" ELSE "None")
    ELSE st.importState

\* Mutant: "Publishing" is taken for the end of the import.
PollVerdict_ReturnsOnPublishing(state) ==
    IF state \in {"Succeeded", "Publishing"} THEN "return"
    ELSE IF state = "Failed" THEN "raise"
    ELSE "sleep"

\* Mutant: "Failed" is not looked for, the loop polls on.
PollVerdict_IgnoresFailed(state) ==
    IF state = "Succeeded" THEN "return" ELSE "sleep"

\* Mutant: a state the loop does not know ends the import with an error.
PollVerdict_UnknownRaises(state) ==
    IF state = "Succeeded" THEN "return"
    ELSE IF state \in {"Failed", "Unknown", "None"} THEN "raise"
    ELSE "sleep"

\* What the loop does with the state it read.
PollVerdict(state) ==
    IF state = "Succeeded" THEN "return"
    ELSE IF state = "Failed" THEN "raise"
    ELSE "sleep"

\* Mutant: the loop returns an empty record instead of the one it fetched.
ReturnedStatus_Blank(st) == NoStatus

\* The record the loop returns on "Succeeded".
ReturnedStatus(st) == st

\* The pause between two polls.
PollPause(prog) == IF prog = "publisher" THEN poll_interval ELSE check_interval

----------------------------------------------------------------------------
(* Decisions of PowerBIPublisher._make_request *)

\* Mutant: exponential backoff, retry_delay * 2 ** attempt.
LinearDelay_Exponential(att) == retry_delay * 2^att

\* retry_delay * (attempt + 1)
LinearDelay(att) == retry_delay * (att + 1)

\* Mutant: after the last attempt the error is raised at once, without the sleep.
RateLimitWait_SkipsLastWait(hdr, att) ==
    IF att + 1 >= max_retries THEN [ok |-> TRUE, wait |-> 0]
    ELSE IF hdr.kind = "absent" THEN [ok |-> TRUE, wait |-> retry_delay * (att + 1)]
    ELSE IF hdr.kind = "text" THEN [ok |-> FALSE, wait |-> 0]
    ELSE IF hdr.value < 0 THEN [ok |-> FALSE, wait |-> 0]
    ELSE [ok |-> TRUE, wait |-> hdr.value]

\* int(response.headers.get('Retry-After', retry_delay * (attempt + 1))) and
\* time.sleep(wait_time): int() of a text that is no integer and sleep() of a
\* negative length both raise ValueError.
RateLimitWait(hdr, att) ==
    IF hdr.kind = "absent" THEN [ok |-> TRUE, wait |-> LinearDelay(att)]
    ELSE IF hdr.kind = "text" THEN [ok |-> FALSE, wait |-> 0]
    ELSE IF hdr.value < 0 THEN [ok |-> FALSE, wait |-> 0]
    ELSE [ok |-> TRUE, wait |-> hdr.value]

\* Mutant: server errors are retried like 429.
IsRateLimited_OrServerError(code) == code = 429 \/ code >= 500

\* `if response.status_code == 429`
IsRateLimited(code) == code = 429

\* Mutant: range(max_retries + 1), one attempt more.
HasNextAttempt_OneMore(att) == att + 1 < max_retries + 1

\* `for attempt in range(max_retries)`: another iteration follows this one.
HasNextAttempt(att) == att + 1 < max_retries

\* Mutant: the exception of the last attempt is slept on like the others.
IsLastAttempt_Never(att) == FALSE

\* `if attempt == max_retries - 1: raise`
IsLastAttempt(att) == att = max_retries - 1

----------------------------------------------------------------------------
(* get_workspace_id of PowerBIClient and of PowerBIPublisher *)

\* Mutant: the names are compared as they are written.
NameMatches_CaseSensitive(listed, target) == listed = target

\* `ws["name"].lower() == workspace_name.lower()`
NameMatches(listed, target) == lower(listed) = lower(target)

\* The positions of the list the loop's condition holds at.
Matches(list, target) == {i \in DOMAIN list : NameMatches(list[i].name, target)}

\* Mutant: the loop runs to its end and the last match is kept.
FirstMatch_Last(list, target) ==
    CHOOSE i \in Matches(list, target) : \A j \in Matches(list, target) : j <= i

\* `for ws in workspaces: if ...: return ws["id"]`: the loop stops at the first match.
FirstMatch(list, target) ==
    CHOOSE i \in Matches(list, target) : \A j \in Matches(list, target) : i <= j

\* The id get_workspace_id returns for the list; 0 is no match (None / ValueError).
get_workspace_id(list, target) ==
    IF Matches(list, target) = {} THEN 0 ELSE list[FirstMatch(list, target)].id

\* The names of the list as the not-found branch puts them out, in order.
AvailableNames(list) == [i \in DOMAIN list |-> list[i].name]

----------------------------------------------------------------------------
(* The run *)

inputs == <<script, file, workspace_id, timeout>>
authv == <<access_token, token_expiry, exchanges>>
pollv == <<start_time, attempt, status, wait_result, fetches, last_fetch, mr_log>>
resolv == <<workspace_name, workspaces, reported, listings>>
callv == <<token_call, auth_calls>>

NotEnded == [kind |-> "running", code |-> 0, error |-> "none"]
Ended(code, e) == [kind |-> "exit", code |-> code, error |-> e]

NoToken == [ok |-> FALSE, error |-> "none", token |-> 0,
            access_token |-> 0, token_expiry |-> 0, calls |-> 0]

\* No call of get_token yet, and a call that did not post to the identity endpoint.
NoAnswer == [kind |-> "none", has_expires_in |-> FALSE, expires_in |-> 0]
NoCall == [made |-> FALSE, at |-> 0, had_token |-> 0, had_expiry |-> 0,
           answer |-> NoAnswer, got |-> NoToken]

\* The state after parse_args: powerbi_publisher is started with --workspace-id,
\* with --workspace, with both or with neither; publish_powerbi_report always with
\* --workspace.  No token was asked for yet, the file was not looked at, and
\* the polling loop has not been given its timeout.
Init ==
    /\ script \in Scripts
    /\ pc = "main"
    /\ now = 0
    /\ file = NoFile
    /\ workspace_id \in (IF script = "publisher" THEN {0, 1} ELSE {0})
    /\ workspace_name \in (IF script = "publisher" THEN Names \cup {<<>>} ELSE Names)
    /\ workspaces = <<>>
    /\ reported = <<>>
    /\ timeout = 0
    /\ access_token = 0
    /\ token_expiry = 0
    /\ start_time = 0
    /\ attempt = 0
    /\ response = NoResponse
    /\ status = NoStatus
    /\ import_id = 0
    /\ wait_result = Running
    /\ result = NotEnded
    /\ steps = <<>>
    /\ fetches = 0
    /\ last_fetch = NoStatus
    /\ exchanges = 0
    /\ mr_log = <<>>
    /\ listings = 0
    /\ token_call = NoCall
    /\ auth_calls = 0
    /\ auth_requests = 0
    /\ targets = {}

\* Mutant: main logs the exception and ends normally.
Fail_Swallowed(e) == pc' = "done" /\ result' = Ended(0, e)

\* An exception reaches main's `except Exception`: sys.exit(1) / return 1.
Fail(e) == pc' = "done" /\ result' = Ended(1, e)

\* self.auth.get_token() of a request of PowerBIClient, the identity endpoint
\* answering idp if it is asked.
TokenFor(idp) == get_token(access_token, token_expiry, now, idp, exchanges + 1)

\* The record of a call g of get_token: the cache it found, when, what the
\* identity endpoint answered if the call posted to it, and what the call did.
Called(g, idp) == [made |-> TRUE, at |-> now, had_token |-> access_token,
                   had_expiry |-> token_expiry,
                   answer |-> IF g.calls = 1 THEN idp ELSE NoAnswer, got |-> g]

\* What the call g of get_token leaves in the PowerBIAuth object.
Authenticate(g, idp) ==
    /\ access_token' = g.access_token
    /\ token_expiry' = g.token_expiry
    /\ exchanges' = exchanges + g.calls
    /\ token_call' = Called(g, idp)
    /\ auth_calls' = auth_calls + 1

\* The request goes out with its Authorization header once get_token returned.
Sent(g) == auth_requests' = IF g.ok THEN auth_requests + 1 ELSE auth_requests

\* main of powerbi_publisher, from the configuration to the workspace: without
\* the three credentials it exits; get_workspace_id is called when --workspace
\* came without --workspace-id.
Main ==
    /\ script = "publisher" /\ pc = "main"
    /\ \E configured \in BOOLEAN :
        IF ~configured THEN Fail("MissingConfiguration") /\ UNCHANGED workspace_name
        ELSE IF workspace_name # <<>> /\ workspace_id = 0
        THEN pc' = "list_workspaces" /\ UNCHANGED <<result, workspace_name>>
        ELSE pc' = "start" /\ workspace_name' = <<>> /\ UNCHANGED result
    /\ UNCHANGED <<script, file, workspace_id, timeout, authv, pollv, now, response,
                   import_id, steps, workspaces, reported, listings, callv, auth_requests>>
    /\ UNCHANGED targets

\* PowerBIClient.get_workspace_id: list_workspaces, then the loop over the list.
GetWorkspaceId ==
    /\ script = "publisher" /\ pc = "list_workspaces"
    /\ \E idp \in IdpResponses, r \in PlainResponses, l \in WorkspaceLists :
        LET g == TokenFor(idp)
            id == get_workspace_id(l, workspace_name) IN
        /\ l = <<>> \/ (g.ok /\ r.kind = "http" /\ r.status_code = 200)
        /\ Authenticate(g, idp)
        /\ Sent(g)
        /\ IF ~g.ok
           THEN Fail(g.error) /\ UNCHANGED <<response, listings, workspaces, workspace_id>>
           ELSE /\ listings' = listings + 1
                /\ response' = r
                /\ IF r.kind = "exception"
                   THEN Fail("RequestException") /\ UNCHANGED <<workspaces, workspace_id>>
                   ELSE IF r.status_code # 200
                   THEN Fail("ListError") /\ UNCHANGED <<workspaces, workspace_id>>
                   ELSE /\ workspaces' = l
                        /\ workspace_id' = id
                        /\ pc' = IF id # 0 THEN "resolved" ELSE "not_found"
                        /\ UNCHANGED result
    /\ UNCHANGED <<script, file, timeout, pollv, now, import_id, steps,
                   workspace_name, reported>>
    /\ UNCHANGED targets

\* main of powerbi_publisher when get_workspace_id returned None: it lists the
\* workspaces again to print their names, and exits.
ListAvailable ==
    /\ script = "publisher" /\ pc = "not_found"
    /\ \E idp \in IdpResponses, r \in PlainResponses, l \in WorkspaceLists :
        LET g == TokenFor(idp) IN
        /\ l = <<>> \/ (g.ok /\ r.kind = "http" /\ r.status_code = 200)
        /\ Authenticate(g, idp)
        /\ Sent(g)
        /\ IF ~g.ok
           THEN Fail(g.error) /\ UNCHANGED <<response, listings, workspaces, reported>>
           ELSE /\ listings' = listings + 1
                /\ response' = r
                /\ IF r.kind = "exception"
                   THEN Fail("RequestException") /\ UNCHANGED <<workspaces, reported>>
                   ELSE IF r.status_code # 200
                   THEN Fail("ListError") /\ UNCHANGED <<workspaces, reported>>
                   ELSE /\ workspaces' = l
                        /\ reported' = AvailableNames(l)
                        /\ Fail("WorkspaceNotFound")
    /\ UNCHANGED <<inputs, pollv, now, import_id, steps, workspace_name>>
    /\ UNCHANGED targets

\* main of publish_powerbi_report, steps 1 to 3: the file is there, the
\* credentials are there, authenticate() hands the token to the publisher.
ReportMain ==
    /\ script = "report" /\ pc = "main"
    /\ \E f \in Files, m \in MsalResults :
        /\ file' = f
        /\ IF ~f.exists
           THEN Fail("FileNotFoundError") /\ UNCHANGED <<access_token, exchanges, auth_calls>>
           ELSE IF m = "missing_credentials"
           THEN Fail("ValueError") /\ UNCHANGED <<access_token, exchanges, auth_calls>>
           ELSE /\ exchanges' = exchanges + 1
                /\ auth_calls' = auth_calls + 1
                /\ IF m = "error"
                   THEN Fail("AuthenticationFailed") /\ UNCHANGED access_token
                   ELSE access_token' = 1 /\ pc' = "list_fetch" /\ UNCHANGED result
    /\ UNCHANGED <<script, workspace_id, timeout, token_expiry, pollv, now, response,
                   import_id, steps, resolv, token_call, auth_requests>>
    /\ UNCHANGED targets

\* PowerBIPublisher.get_workspace_id, after _make_request returned the response.
ResolveWorkspace ==
    /\ script = "report" /\ pc = "list_response"
    /\ LET id == get_workspace_id(workspaces, workspace_name) IN
       IF response.status_code # 200
       THEN Fail("ListError") /\ UNCHANGED <<workspace_id, reported>>
       ELSE IF id # 0
       THEN workspace_id' = id /\ pc' = "resolved" /\ UNCHANGED <<result, reported>>
       ELSE /\ reported' = AvailableNames(workspaces)
            /\ Fail("WorkspaceNotFound")
            /\ UNCHANGED workspace_id
    /\ UNCHANGED <<script, file, timeout, authv, pollv, now, response, import_id, steps,
                   workspace_name, workspaces, listings, callv, auth_requests>>
    /\ UNCHANGED targets

\* main goes on with the id: the locals of get_workspace_id are gone, and the
\* name is only printed from here on.
MainProceeds ==
    /\ pc = "resolved"
    /\ pc' = "start"
    /\ workspace_name' = <<>>
    /\ workspaces' = <<>>
    /\ attempt' = 0
    /\ mr_log' = <<>>
    /\ UNCHANGED <<inputs, authv, now, response, import_id, steps, result, reported,
                   listings, start_time, status, wait_result, fetches, last_fetch,
                   callv, auth_requests>>
    /\ UNCHANGED targets

\* PowerBIClient.import_pbix, up to the choice of the upload path.
ImportPbix ==
    /\ script = "publisher" /\ pc = "start"
    /\ \E f \in Files :
        /\ file' = f
        /\ IF ~f.exists THEN Fail("FileNotFoundError")
           ELSE IF ~SuffixOk(f.suffix) THEN Fail("ValueError")
           ELSE /\ pc' = IF UsesStagedPath(script, f.size) THEN "temp_location"
                         ELSE "direct_post"
                /\ UNCHANGED result
    /\ UNCHANGED <<script, workspace_id, timeout, authv, pollv, now, response,
                   import_id, steps>>
    /\ UNCHANGED <<resolv, callv, auth_requests>>
    /\ UNCHANGED targets

\* PowerBIPublisher.publish_report, up to the upload.
PublishReport ==
    /\ script = "report" /\ pc = "start"
    /\ IF ~file.exists THEN Fail("FileNotFoundError")
       ELSE IF ~SuffixOk(file.suffix) THEN Fail("ValueError")
       ELSE /\ pc' = IF UsesStagedPath(script, file.size) THEN "temp_location"
                     ELSE "direct_post"
            /\ UNCHANGED result
    /\ UNCHANGED <<inputs, authv, pollv, now, response, import_id, steps>>
    /\ UNCHANGED <<resolv, callv, auth_requests>>
    /\ UNCHANGED targets

\* What import_pbix / publish_report do with the answer r to the multipart POST.
UploadAnswered(r) ==
    /\ response' = r
    /\ IF r.kind = "exception" THEN Fail("RequestException") /\ UNCHANGED import_id
       ELSE IF ~UploadAccepted(script, r.status_code)
       THEN Fail("UploadError") /\ UNCHANGED import_id
       ELSE pc' = "imported" /\ import_id' = r.id /\ UNCHANGED result

\* import_pbix: the multipart POST of the direct path.
DirectUpload ==
    /\ script = "publisher" /\ pc = "direct_post"
    /\ \E idp \in IdpResponses, r \in UploadResponses :
        LET g == TokenFor(idp) IN
        /\ Authenticate(g, idp)
        /\ Sent(g)
        /\ IF ~g.ok THEN Fail(g.error) /\ UNCHANGED <<response, import_id, steps, targets>>
           ELSE /\ steps' = Append(steps, "direct_post")
                /\ targets' = targets \cup {ImportEndpoint(workspace_id)}
                /\ UploadAnswered(r)
    /\ UNCHANGED <<inputs, pollv, now, resolv>>

\* publish_report: the multipart POST, sent with the token the publisher was built with.
ReportUpload ==
    /\ script = "report" /\ pc = "direct_post"
    /\ \E r \in UploadResponses :
        steps' = Append(steps, "direct_post") /\ UploadAnswered(r)
    /\ targets' = targets \cup {ReportImportEndpoint(workspace_id)}
    /\ auth_requests' = auth_requests + 1
    /\ UNCHANGED <<inputs, authv, pollv, now, resolv, callv>>

\* _import_large_pbix, step 1: create the temporary upload location.
CreateTemporaryUploadLocation ==
    /\ pc = "temp_location"
    /\ \E idp \in IdpResponses, r \in PlainResponses :
        LET g == TokenFor(idp) IN
        /\ Authenticate(g, idp)
        /\ Sent(g)
        /\ IF ~g.ok THEN Fail(g.error) /\ UNCHANGED <<response, steps, targets>>
           ELSE /\ steps' = Append(steps, "temp_location")
                /\ targets' = targets \cup {TempLocationEndpoint(workspace_id)}
                /\ response' = r
                /\ IF r.kind = "exception" THEN Fail("RequestException")
                   ELSE IF ~TempLocationAccepted(r.status_code) THEN Fail("UploadError")
                   ELSE pc' = "blob_put" /\ UNCHANGED result
    /\ UNCHANGED <<inputs, pollv, now, import_id, resolv>>

\* _import_large_pbix, step 2: PUT the file to the blob URL.
BlobUpload ==
    /\ pc = "blob_put"
    /\ \E r \in PlainResponses :
        /\ steps' = Append(steps, "blob_put")
        /\ response' = r
        /\ IF r.kind = "exception" THEN Fail("RequestException")
           ELSE IF ~BlobAccepted(r.status_code) THEN Fail("UploadError")
           ELSE pc' = "import_from_blob" /\ UNCHANGED result
    /\ UNCHANGED <<inputs, authv, pollv, now, import_id, resolv, callv, auth_requests>>
    /\ UNCHANGED targets

\* _import_large_pbix, step 3: POST the import of the blob.
ImportFromBlob ==
    /\ pc = "import_from_blob"
    /\ \E idp \in IdpResponses, r \in UploadResponses :
        LET g == TokenFor(idp) IN
        /\ Authenticate(g, idp)
        /\ Sent(g)
        /\ IF ~g.ok THEN Fail(g.error) /\ UNCHANGED <<response, steps, import_id, targets>>
           ELSE /\ steps' = Append(steps, "import_post")
                /\ targets' = targets \cup {BlobImportEndpoint(workspace_id)}
                /\ response' = r
                /\ IF r.kind = "exception"
                   THEN Fail("RequestException") /\ UNCHANGED import_id
                   ELSE IF ~BlobImportAccepted(r.status_code)
                   THEN Fail("UploadError") /\ UNCHANGED import_id
                   ELSE pc' = "imported" /\ import_id' = r.id /\ UNCHANGED result
    /\ UNCHANGED <<inputs, pollv, now, resolv>>

\* An exception leaves the polling loop and reaches main.
PollFail(e) == wait_result' = Raised(e) /\ Fail(e)

\* main of powerbi_publisher after import_pbix returned: `if args.wait and import_id`
\* (args.wait is always True), then the first lines of wait_for_import.
MainAfterImport ==
    /\ script = "publisher" /\ pc = "imported"
    /\ IF WaitsForImport(import_id)
       THEN /\ \E t \in Timeouts : timeout' = t
            /\ pc' = "poll_check" /\ start_time' = now /\ UNCHANGED result
       ELSE pc' = "done" /\ result' = Ended(0, "none") /\ UNCHANGED <<start_time, timeout>>
    /\ UNCHANGED <<script, file, workspace_id, authv, now, response, import_id, steps,
                   attempt, status, wait_result, fetches, last_fetch, mr_log>>
    /\ UNCHANGED <<resolv, callv, auth_requests>>
    /\ UNCHANGED targets

\* publish_report after the upload was accepted: it always polls, whatever the id.
PublishReportAfterUpload ==
    /\ script = "report" /\ pc = "imported"
    /\ \E t \in Timeouts : timeout' = t
    /\ pc' = "poll_check" /\ start_time' = now
    /\ UNCHANGED <<script, file, workspace_id, authv, now, response, import_id, steps, result,
                   attempt, status, wait_result, fetches, last_fetch, mr_log>>
    /\ UNCHANGED <<resolv, callv, auth_requests>>
    /\ UNCHANGED targets

\* The head of the polling loop, and the TimeoutError after it.
PollCheck ==
    /\ pc = "poll_check"
    /\ IF PollContinues(now, start_time, timeout)
       THEN /\ pc' = "poll_fetch"
            /\ attempt' = 0
            /\ mr_log' = <<>>
            /\ UNCHANGED <<wait_result, result>>
       ELSE PollFail("TimeoutError") /\ UNCHANGED <<attempt, mr_log>>
    /\ UNCHANGED <<inputs, authv, now, response, import_id, steps,
                   start_time, status, fetches, last_fetch>>
    /\ UNCHANGED <<resolv, callv, auth_requests>>
    /\ UNCHANGED targets

\* PowerBIClient.get_import_status as wait_for_import calls it.
GetImportStatus ==
    /\ script = "publisher" /\ pc = "poll_fetch"
    /\ \E idp \in IdpResponses, r \in StatusResponses :
        LET g == TokenFor(idp) IN
        /\ Authenticate(g, idp)
        /\ Sent(g)
        /\ IF ~g.ok
           THEN /\ PollFail(g.error)
                /\ UNCHANGED <<response, status, fetches, last_fetch, targets>>
           ELSE /\ fetches' = fetches + 1
                /\ targets' = targets \cup {StatusEndpoint(workspace_id)}
                /\ response' = r
                /\ IF r.kind = "exception"
                   THEN PollFail("RequestException") /\ UNCHANGED <<status, last_fetch>>
                   ELSE IF ~StatusAccepted(r.status_code)
                   THEN PollFail("StatusError") /\ UNCHANGED <<status, last_fetch>>
                   ELSE /\ status' = r.body
                        /\ last_fetch' = r.body
                        /\ pc' = "poll_decide"
                        /\ UNCHANGED <<wait_result, result>>
    /\ UNCHANGED <<inputs, now, import_id, steps, start_time, attempt, mr_log, resolv>>

\* One entry of mr_log: the answer to an attempt and the sleep that followed it.
Attempted(r, slept, wait) ==
    [kind |-> r.kind, status_code |-> r.status_code, retry_after |-> r.retry_after,
     slept |-> slept, wait |-> wait]

\* An exception leaves _make_request: through the polling loop, or through
\* get_workspace_id, to main.
HelperRaise(e) ==
    IF pc = "poll_fetch" THEN PollFail(e) ELSE Fail(e) /\ UNCHANGED wait_result

\* The loop of _make_request goes on after a sleep, or ends in "Max retries exceeded".
NextAttempt ==
    IF HasNextAttempt(attempt)
    THEN attempt' = attempt + 1 /\ UNCHANGED <<pc, wait_result, result>>
    ELSE HelperRaise("MaxRetriesExceeded") /\ UNCHANGED attempt

\* One iteration of the loop of PowerBIPublisher._make_request, called by
\* get_workspace_id for the list of workspaces and by _wait_for_import for the
\* status of the import.
MakeRequest ==
    /\ script = "report" /\ pc \in {"list_fetch", "poll_fetch"}
    /\ \E r \in (IF pc = "poll_fetch" THEN StatusResponses ELSE PlainResponses),
          l \in WorkspaceLists :
        /\ l = <<>> \/ (pc = "list_fetch" /\ r.kind = "http" /\ r.status_code = 200)
        /\ fetches' = IF pc = "poll_fetch" THEN fetches + 1 ELSE fetches
        /\ listings' = IF pc = "list_fetch" THEN listings + 1 ELSE listings
        /\ targets' = IF pc = "poll_fetch"
                       THEN targets \cup {ReportStatusEndpoint(workspace_id)}
                       ELSE targets
        /\ response' = r
        /\ last_fetch' = IF pc = "poll_fetch" /\ r.kind = "http" /\ r.status_code = 200
                         THEN r.body ELSE last_fetch
        /\ workspaces' = IF pc = "list_fetch" /\ r.kind = "http" /\ r.status_code = 200
                         THEN l ELSE workspaces
        /\ IF r.kind = "exception"
           THEN IF IsLastAttempt(attempt)
                THEN /\ HelperRaise("RequestException")
                     /\ mr_log' = Append(mr_log, Attempted(r, FALSE, 0))
                     /\ UNCHANGED <<now, attempt>>
                ELSE /\ now' = now + LinearDelay(attempt)
                     /\ mr_log' = Append(mr_log, Attempted(r, TRUE, LinearDelay(attempt)))
                     /\ NextAttempt
           ELSE IF IsRateLimited(r.status_code)
           THEN LET w == RateLimitWait(r.retry_after, attempt) IN
                IF ~w.ok
                THEN /\ HelperRaise("ValueError")
                     /\ mr_log' = Append(mr_log, Attempted(r, FALSE, 0))
                     /\ UNCHANGED <<now, attempt>>
                ELSE /\ now' = now + w.wait
                     /\ mr_log' = Append(mr_log, Attempted(r, TRUE, w.wait))
                     /\ NextAttempt
           ELSE /\ pc' = IF pc = "poll_fetch" THEN "poll_response" ELSE "list_response"
                /\ mr_log' = Append(mr_log, Attempted(r, FALSE, 0))
                /\ UNCHANGED <<now, attempt, wait_result, result>>
    /\ auth_requests' = auth_requests + 1
    /\ UNCHANGED <<inputs, authv, import_id, steps, start_time, status,
                   workspace_name, reported, callv>>

\* _wait_for_import reads the response _make_request returned.
CheckStatusResponse ==
    /\ script = "report" /\ pc = "poll_response"
    /\ IF ~StatusAccepted(response.status_code)
       THEN PollFail("StatusError") /\ UNCHANGED status
       ELSE status' = response.body /\ pc' = "poll_decide"
                /\ UNCHANGED <<wait_result, result>>
    /\ UNCHANGED <<inputs, authv, now, response, import_id, steps,
                   start_time, attempt, fetches, last_fetch, mr_log>>
    /\ UNCHANGED <<resolv, callv, auth_requests>>
    /\ UNCHANGED targets

\* The loop looks at the importState it read.
PollDecide ==
    /\ pc = "poll_decide"
    /\ LET verdict == PollVerdict(ImportStateOf(script, status)) IN
       IF verdict = "return"
       THEN /\ wait_result' = Returned(ReturnedStatus(status))
            /\ pc' = "wait_returned"
            /\ UNCHANGED result
       ELSE IF verdict = "raise"
       THEN PollFail("ImportFailed")
       ELSE pc' = "poll_sleep" /\ UNCHANGED <<wait_result, result>>
    /\ UNCHANGED <<inputs, authv, now, response, import_id, steps,
                   start_time, attempt, status, fetches, last_fetch, mr_log>>
    /\ UNCHANGED <<resolv, callv, auth_requests>>
    /\ UNCHANGED targets

\* time.sleep(poll_interval) / time.sleep(check_interval)
PollSleep ==
    /\ pc = "poll_sleep"
    /\ now' = now + PollPause(script)
    /\ pc' = "poll_check"
    /\ UNCHANGED <<inputs, authv, response, import_id, steps, result, pollv>>
    /\ UNCHANGED <<resolv, callv, auth_requests>>
    /\ UNCHANGED targets

\* main of powerbi_publisher after wait_for_import returned: the run ends well.
MainFinish ==
    /\ script = "publisher" /\ pc = "wait_returned"
    /\ pc' = "done" /\ result' = Ended(0, "none")
    /\ UNCHANGED <<inputs, authv, now, response, import_id, steps, pollv>>
    /\ UNCHANGED <<resolv, callv, auth_requests>>
    /\ UNCHANGED targets

\* publish_report after _wait_for_import returned, and main after it.
PublishReportFinish ==
    /\ script = "report" /\ pc = "wait_returned"
    /\ IF wait_result.value.importState = "Succeeded"
       THEN pc' = "done" /\ result' = Ended(0, "none")
       ELSE Fail("ImportFailed")
    /\ UNCHANGED <<inputs, authv, now, response, import_id, steps, pollv>>
    /\ UNCHANGED <<resolv, callv, auth_requests>>
    /\ UNCHANGED targets

Next ==
    \/ Main
    \/ GetWorkspaceId
    \/ ListAvailable
    \/ ReportMain
    \/ ResolveWorkspace
    \/ MainProceeds
    \/ ImportPbix
    \/ PublishReport
    \/ DirectUpload
    \/ ReportUpload
    \/ CreateTemporaryUploadLocation
    \/ BlobUpload
    \/ ImportFromBlob
    \/ MainAfterImport
    \/ PublishReportAfterUpload
    \/ PollCheck
    \/ GetImportStatus
    \/ MakeRequest
    \/ CheckStatusResponse
    \/ PollDecide
    \/ PollSleep
    \/ MainFinish
    \/ PublishReportFinish

Spec == Init /\ [][Next]_vars

----------------------------------------------------------------------------
(* Vocabulary of the properties *)

Polling == pc \in {"poll_check", "poll_fetch", "poll_response", "poll_decide", "poll_sleep"}

\* The polling loop was entered (and may have ended since).
PollingStarted == Polling \/ wait_result.kind # "running"

\* The last response of the run is a status answer 200 carrying importState s.
StatusFetched(s) ==
    /\ fetches > 0
    /\ response.kind = "http" /\ response.status_code = 200
    /\ response.body.importState = s

TerminalFetched == StatusFetched("Succeeded") \/ StatusFetched("Failed")

Is2xx(code) == code >= 200 /\ code <= 299

StagedOrder == <<"temp_location", "blob_put", "import_post">>

IsPrefix(a, b) == Len(a) <= Len(b) /\ a = SubSeq(b, 1, Len(a))

\* The response of the upload step sent last is still the run's last response.
UploadAnswerInHand == steps # <<>> /\ fetches = 0

RateLimited(e) == e.kind = "http" /\ e.status_code = 429

\* The run is inside a call of _make_request, or that call has just returned.
InHelper == script = "report" /\ pc \in {"list_fetch", "poll_fetch"}

HelperReturned == script = "report" /\ pc \in {"list_response", "poll_response"}

----------------------------------------------------------------------------
(* C1: polling returns normally only when a status fetch reported "Succeeded", *)
(* and what it returns is the status record of that last fetch, unchanged.      *)
C1_ReturnsLastSucceededFetch ==
    wait_result.kind = "return" =>
        /\ StatusFetched("Succeeded")
        /\ wait_result.value = response.body
        /\ wait_result.value = last_fetch

\* Polling returned on its second poll or later, with a report and a dataset.
C1_Witness ==
    /\ wait_result.kind = "return"
    /\ fetches >= 2
    /\ wait_result.value.reports # <<>>
    /\ wait_result.value.datasets # <<>>

(* C2: once a status fetch has reported "Succeeded" or "Failed", no sleep and   *)
(* no further status fetch follow, and "Failed" ends the run with the          *)
(* import-failure error instead of a returned value.                           *)
C2_TerminalStateEndsPolling ==
    [][/\ TerminalFetched => (now' = now /\ fetches' = fetches)
       /\ (StatusFetched("Failed") /\ pc = "poll_decide") =>
              (wait_result' = Raised("ImportFailed") /\ result' = Ended(1, "ImportFailed"))
       /\ (StatusFetched("Failed") /\ Polling) => pc' \in {"poll_decide", "done"}
      ]_vars

\* "Failed" was reported on a later poll (a sleep came before it) and ended the run.
C2_Witness ==
    /\ StatusFetched("Failed")
    /\ fetches >= 2 /\ now > start_time
    /\ pc = "done" /\ result.error = "ImportFailed"

\* Polling was not ended by the network failing or by the identity endpoint:
\* every request it sent got its HTTP response.
EveryRequestAnswered == wait_result.error \notin {"RequestException", "AuthenticationFailed"}

(* C3: as long as no status fetch has reported "Succeeded" or "Failed",         *)
(* polling, running or ended by its error, is never more than                   *)
(* timeout + poll_interval past its start, whatever the remote answers          *)
(* (rate-limited answers handled by the request helper included).               *)
C3_TimeoutWithinBound ==
    (PollingStarted /\ ~TerminalFetched) =>
        now - start_time <= timeout + PollPause(script)

(* C3, the error it ends with: polling that no terminal state ended, and whose  *)
(* requests were all answered, ends with the timeout error.                     *)
C3_EndsWithTimeoutError ==
    (wait_result.kind = "raise" /\ ~TerminalFetched /\ EveryRequestAnswered) =>
        wait_result.error = "TimeoutError"

(* C4: the upload path is a function of the size alone: a file of more than     *)
(* 2^30 bytes goes the staged path, a file of at most 2^30 bytes the direct one. *)
C4_PathChosenBySize ==
    steps # <<>> =>
        IF file.size > 2^30 THEN steps[1] = "temp_location"
        ELSE steps[1] = "direct_post"

(* C5: on the direct path a response 200, 201 or 202 is a success and yields    *)
(* the operation identifier of the response; any other status ends the run     *)
(* with an upload error, and no polling starts.                                *)
C5_DirectUploadStatus ==
    (UploadAnswerInHand /\ steps = <<"direct_post">> /\ response.kind = "http") =>
        IF response.status_code \in {200, 201, 202}
        THEN result.error # "UploadError" /\ import_id = response.id
        ELSE result = Ended(1, "UploadError") /\ ~PollingStarted

(* C6: the staged upload sends its three requests in order, each at most once;  *)
(* a step that fails ends the run with an error and nothing is sent after it.   *)
C6_StagedStepsInOrder ==
    /\ [](steps # <<>> => (steps = <<"direct_post">> \/ IsPrefix(steps, StagedOrder)))
    /\ []((UploadAnswerInHand /\ steps[1] = "temp_location"
             /\ (response.kind = "exception" \/ ~Is2xx(response.status_code)))
            => (pc = "done" /\ result.kind = "exit" /\ result.code = 1))
    /\ [][pc = "done" => steps' = steps]_vars

\* The three steps were sent and the import was accepted.
C6_Witness ==
    /\ steps = StagedOrder
    /\ pc = "imported"
    /\ import_id # 0

\* The blob PUT was the last request sent and its answer was no 2xx.
BlobRejected ==
    /\ UploadAnswerInHand
    /\ steps = <<"temp_location", "blob_put">>
    /\ response.kind = "http" /\ ~Is2xx(response.status_code)

(* C7: on the staged path a non-2xx response to the blob PUT is a terminal      *)
(* upload error: the import POST is never sent after it.                        *)
C7_BlobFailureIsTerminal ==
    /\ [](BlobRejected => (pc = "done" /\ result = Ended(1, "UploadError")))
    /\ [][BlobRejected => (steps' = steps /\ pc' = "done")]_vars

\* The blob PUT was answered 400 or 500 and the run ended there.
C7_Witness == BlobRejected /\ response.status_code >= 400 /\ pc = "done"

\* The current _make_request call got 429 on each of its first three attempts.
ThreeRateLimited ==
    /\ Len(mr_log) >= 3
    /\ \A i \in 1..3 : RateLimited(mr_log[i]) /\ mr_log[i].slept

PrescribedWait(e, i) ==
    IF e.retry_after.kind = "absent" THEN retry_delay * i ELSE e.retry_after.value

ErrorAnswer(e) == e.kind = "http" /\ ~Is2xx(e.status_code) /\ e.status_code # 429

(* C10: a well-formed non-2xx response other than 429 is never retried: the     *)
(* helper hands it to its caller after that attempt, without a sleep.           *)
C10_ErrorStatusNotRetried ==
    /\ [](\A i \in DOMAIN mr_log :
            ErrorAnswer(mr_log[i]) =>
                /\ i = Len(mr_log)
                /\ ~mr_log[i].slept
                /\ (HelperReturned \/ pc = "done")
                /\ response.status_code = mr_log[i].status_code)
    /\ [][(InHelper /\ ErrorAnswer(response'))
            => (now' = now /\ HelperReturned' /\ attempt' = attempt)]_vars

\* A 500 came back on the second attempt, after a 429, and went to the caller.
C10_Witness ==
    /\ Len(mr_log) = 2
    /\ RateLimited(mr_log[1])
    /\ mr_log[2].kind = "http" /\ mr_log[2].status_code = 500
    /\ pc = "poll_response"

\* The i-th attempt ended in a request exception.
NetworkFailed(e) == e.kind = "exception"

(* C11: an attempt of the request helper that raises a request exception is     *)
(* retried after the linear delay retry_delay * attempt_number, and when the    *)
(* last permitted attempt raises, that exception goes to the caller with no     *)
(* sleep and no further attempt.                                                *)
C11_NetworkErrorRetried ==
    /\ [](\A i \in DOMAIN mr_log :
            NetworkFailed(mr_log[i]) =>
                IF i < max_retries
                THEN mr_log[i].slept /\ mr_log[i].wait = retry_delay * i
                ELSE /\ ~mr_log[i].slept
                     /\ i = Len(mr_log)
                     /\ pc = "done" /\ result = Ended(1, "RequestException"))
    /\ [][(InHelper /\ NetworkFailed(response'))
            => IF Len(mr_log') < max_retries
               THEN /\ now' - now = retry_delay * Len(mr_log')
                    /\ pc' = pc /\ attempt' = attempt + 1 /\ result' = NotEnded
               ELSE now' = now /\ pc' = "done" /\ attempt' = attempt]_vars

\* Three attempts raised: two were slept on, 2 and 4 seconds, the third went to main.
C11_Witness ==
    /\ Len(mr_log) = 3
    /\ \A i \in 1..3 : NetworkFailed(mr_log[i])
    /\ mr_log[1].wait = 2 /\ mr_log[2].wait = 4
    /\ result = Ended(1, "RequestException")

(* C12: a 429 response to the import upload or to a staging step does not end   *)
(* the run on that first attempt: the step is retried.                          *)
C12_UploadRateLimitRetried ==
    (UploadAnswerInHand /\ RateLimited(response)) => (pc # "done" /\ result = NotEnded)

\* get_token was called with a cached token that had more than the margin left.
CacheWasFresh ==
    /\ token_call.made
    /\ token_call.had_token # 0
    /\ token_call.had_expiry - token_call.at > TokenMargin

\* get_token was called with no cached token, or with one within the margin.
CacheWasStale ==
    /\ token_call.made
    /\ (token_call.had_token = 0 \/ token_call.had_expiry - token_call.at <= TokenMargin)

(* C13: a call of get_token that finds a cached token with more than 60 seconds *)
(* left returns that token, sends nothing to the identity endpoint, and leaves  *)
(* the cached token and its expiry as they were.                                *)
C13_CachedTokenReused ==
    /\ [](CacheWasFresh =>
            /\ token_call.got.ok
            /\ token_call.got.token = token_call.had_token
            /\ token_call.got.calls = 0
            /\ access_token = token_call.had_token
            /\ token_expiry = token_call.had_expiry)
    /\ [][(auth_calls' = auth_calls + 1 /\ script = "publisher"
             /\ access_token # 0 /\ token_expiry - now > TokenMargin)
            => (exchanges' = exchanges /\ access_token' = access_token
                  /\ token_expiry' = token_expiry)]_vars

\* A status poll after a sleep was sent with the token of the upload.
C13_Witness ==
    /\ CacheWasFresh
    /\ token_call.at > 0
    /\ fetches >= 2
    /\ exchanges = 1

(* C14: a call of get_token that finds no cached token, or one with 60 seconds  *)
(* or less left (exactly 60, or expired), sends exactly one token exchange.     *)
C14_StaleCacheExchangesOnce ==
    /\ [](CacheWasStale => token_call.got.calls = 1)
    /\ [][(auth_calls' = auth_calls + 1 /\ script = "publisher"
             /\ (access_token = 0 \/ token_expiry - now <= TokenMargin))
            => exchanges' = exchanges + 1]_vars

\* The cached token had exactly 60 seconds left and was replaced.
C14_Witness ==
    /\ token_call.made
    /\ token_call.had_token # 0
    /\ token_call.had_expiry - token_call.at = TokenMargin
    /\ token_call.got.ok
    /\ token_call.got.calls = 1
    /\ access_token # token_call.had_token

(* C15 as stated: every token get_token returns has at least 60 seconds left    *)
(* when it is returned, whatever lifetime the identity endpoint reported.       *)
C15_SixtySecondsLeft ==
    (token_call.made /\ token_call.got.ok) =>
        token_call.got.token_expiry - token_call.at >= TokenMargin

(* C15, amended: every token get_token returns from its cache has more than 60  *)
(* seconds left when it is returned; a token it has just exchanged is a new one *)
(* and is returned with the lifetime the identity endpoint reported.            *)
C15_CachedTokenOutsideMargin ==
    (token_call.made /\ token_call.got.ok) =>
        IF token_call.got.calls = 0
        THEN token_call.got.token_expiry - token_call.at > TokenMargin
        ELSE /\ token_call.got.token # token_call.had_token
             /\ token_call.got.token_expiry >= token_call.at

\* A cached token was returned with 61 seconds left.
C15_Witness ==
    /\ token_call.made
    /\ token_call.got.ok
    /\ token_call.got.calls = 0
    /\ token_call.got.token_expiry - token_call.at = TokenMargin + 1

\* The last call of get_token was rejected by the identity endpoint.
ExchangeRejected == token_call.made /\ token_call.got.error = "AuthenticationFailed"

(* C16: when the identity endpoint rejects the exchange, get_token fails with   *)
(* the authentication error after that one call, nothing is retried or sent     *)
(* after it, and the cached token and expiry are what they were before.         *)
C16_RejectionFailsAtOnce ==
    /\ [](ExchangeRejected =>
            /\ ~token_call.got.ok
            /\ token_call.got.calls = 1
            /\ access_token = token_call.had_token
            /\ token_expiry = token_call.had_expiry
            /\ pc = "done" /\ result = Ended(1, "AuthenticationFailed"))
    /\ [][(ExchangeRejected' /\ auth_calls' = auth_calls + 1)
            => (exchanges' = exchanges + 1 /\ auth_requests' = auth_requests)]_vars
    /\ [][ExchangeRejected => (exchanges' = exchanges /\ auth_requests' = auth_requests)]_vars

\* A token within the margin was to be replaced and the exchange was rejected.
C16_Witness ==
    /\ ExchangeRejected
    /\ token_call.had_token # 0
    /\ access_token = token_call.had_token
    /\ token_expiry = token_call.had_expiry
    /\ fetches >= 1

(* C17: every request sent with an Authorization header follows a call of the   *)
(* authenticator made for it, so a token within the margin is never sent.       *)
C17_AuthenticatorPerRequest == auth_requests <= auth_calls

\* Two characters are the same letter, whatever their case.
SameLetter(c, d) ==
    c = d \/ {c, d} \in {{"a", "A"}, {"b", "B"}, {"i", "I"}, {"p", "P"},
                         {"s", "S"}, {"t", "T"}, {"x", "X"}}

\* Two names are equal when letter case is ignored.
EqualIgnoringCase(a, b) ==
    Len(a) = Len(b) /\ \A k \in 1..Len(a) : SameLetter(a[k], b[k])

\* The i-th listed workspace matches the target name.
MatchAt(i) == EqualIgnoringCase(workspaces[i].name, workspace_name)

\* get_workspace_id has just returned an id for the list in `workspaces`.
Resolved == pc = "resolved"

\* get_workspace_id has just found no id in the list in `workspaces`.
Unresolved ==
    \/ script = "publisher" /\ pc = "not_found"
    \/ script = "report" /\ result.error = "WorkspaceNotFound"

(* C18: the target name resolves to a listed workspace's id if and only if the  *)
(* two names are equal when letter case is ignored; the id returned is that of  *)
(* such a workspace, and a listed name the target is only a part of (or that is *)
(* only a part of the target) is never the one resolved to.                     *)
C18_CaseInsensitiveExactMatch ==
    /\ Resolved => \E i \in DOMAIN workspaces :
                       MatchAt(i) /\ workspaces[i].id = workspace_id
    /\ Unresolved => \A i \in DOMAIN workspaces : ~MatchAt(i)
    /\ (Resolved \/ Unresolved) => workspace_name # <<>>

\* "SA" resolved to the second listed workspace "sa", past the listed "s".
C18_Witness ==
    /\ Resolved
    /\ workspace_name = <<"S", "A">>
    /\ Len(workspaces) = 2
    /\ workspaces[1].name = <<"s">>
    /\ workspaces[2].name = <<"s", "a">>
    /\ workspace_id = workspaces[2].id

\* The answer to GET /groups that get_workspace_id looks through in this step is a 200.
ListInHand ==
    /\ response'.kind = "http" /\ response'.status_code = 200
    /\ \/ script = "publisher" /\ pc = "list_workspaces" /\ listings' = listings + 1
       \/ script = "report" /\ pc = "list_response"

SeveralMatch == Cardinality({i \in DOMAIN workspaces : MatchAt(i)}) >= 2

(* C19: when several listed workspaces match the target name, resolution        *)
(* returns the id of the first of them in the order of the list, and the run    *)
(* goes on: no error is raised for the ambiguity.                               *)
C19_FirstMatchWins ==
    /\ [](Resolved => \E i \in DOMAIN workspaces :
                          /\ MatchAt(i) /\ workspaces[i].id = workspace_id
                          /\ \A j \in 1..(i - 1) : ~MatchAt(j))
    /\ [][(ListInHand /\ SeveralMatch')
            => (Resolved' /\ result' = NotEnded /\ workspace_id' # 0)]_vars

\* Two listed workspaces of different spelling matched, and the first one's id came back.
C19_Witness ==
    /\ Resolved
    /\ SeveralMatch
    /\ workspaces[1].name # workspaces[2].name
    /\ workspace_id = workspaces[1].id

(* C20: when no listed workspace matches the target name, the run ends with the *)
(* workspace-not-found error, and what it puts out with that error holds the    *)
(* names of all the workspaces of the list it received.                         *)
C20_NotFoundListsNames ==
    [][((script = "publisher" /\ pc = "not_found")
          \/ (ListInHand /\ script = "report" /\ \A i \in DOMAIN workspaces : ~MatchAt(i)))
        => (result' = Ended(1, "WorkspaceNotFound")
              /\ reported' = AvailableNames(workspaces'))]_vars

----------------------------------------------------------------------------
\* A call of get_token (of authenticate() in publish_powerbi_report) fails in this step.
AuthenticationFails ==
    /\ auth_calls' = auth_calls + 1
    /\ IF script = "publisher" THEN ~token_call'.got.ok ELSE access_token' = 0

\* The workspace list is not obtained, or holds no workspace of the target name.
ResolutionFails ==
    /\ pc \in {"list_workspaces", "list_fetch", "list_response", "not_found"}
    /\ pc' \notin {"list_fetch", "list_response", "resolved"}

\* An upload request gets no answer, or an answer that is no 2xx.
UploadFails ==
    /\ steps' # steps
    /\ response'.kind = "exception" \/ ~Is2xx(response'.status_code)

\* Polling ends with an error: import failed, timeout, or a request that failed.
PollingFails == wait_result.kind = "running" /\ wait_result'.kind = "raise"

(* C21: every failure of the workflow (authentication, workspace resolution or  *)
(* listing, upload, import failed, timeout) ends the run with a non-zero exit   *)
(* status: a step in which one occurs ends the run with status 1 (or, in        *)
(* powerbi_publisher, goes to the listing of the names that ends it so), and a  *)
(* run that ends with status 0 has had its upload accepted and its polling, if  *)
(* any, returned.                                                               *)
C21_FailureExitsNonZero ==
    /\ [][(AuthenticationFails \/ ResolutionFails \/ UploadFails \/ PollingFails) =>
            \/ pc' = "done" /\ result'.kind = "exit" /\ result'.code # 0
            \/ script = "publisher" /\ pc' = "not_found" /\ result' = NotEnded
         ]_vars
    /\ [](pc = "not_found" => result = NotEnded)
    /\ [](result.kind = "exit" => (result.code = 0 <=> result.error = "none"))
    /\ []((result.kind = "exit" /\ result.code = 0) =>
            /\ steps # <<>>
            /\ wait_result.kind # "raise"
            /\ IF fetches = 0
               THEN script = "publisher" /\ Is2xx(response.status_code)
               ELSE wait_result.kind = "return" /\ StatusFetched("Succeeded"))
    /\ [][result.kind = "exit" => result' = result]_vars

\* A run that resolved its workspace, uploaded, polled and then timed out
\* has ended with status 1.
C21_Witness ==
    /\ pc = "done" /\ result.kind = "exit" /\ result.code = 1
    /\ result.error = "TimeoutError"
    /\ listings >= 1 /\ fetches >= 1

----------------------------------------------------------------------------
\* The last call of get_token (of authenticate()) failed; the run ends with it.
AuthenticationFailed ==
    IF script = "publisher" THEN token_call.made /\ ~token_call.got.ok
    ELSE auth_calls >= 1 /\ access_token = 0

\* The run asked for the identity endpoint's token and has never had one.
NoTokenObtained == auth_calls >= 1 /\ access_token = 0

\* The workspace list was not obtained, or held no workspace of the target name.
ResolutionFailed == Unresolved \/ result.error \in {"WorkspaceNotFound", "ListError"}

\* The order of the stages: the list request goes out with a token, the upload
\* starts only from a resolved workspace (or, in powerbi_publisher, with no name
\* to resolve), and an upload request goes out with a token and a resolved id.
StagesInOrder ==
    [][/\ listings' > listings => access_token' # 0
       /\ (pc # "start" /\ pc' = "start") =>
              \/ pc = "resolved" /\ workspace_id # 0
              \/ script = "publisher" /\ pc = "main"
                   /\ (workspace_name = <<>> \/ workspace_id # 0)
       /\ steps' # steps =>
              /\ access_token' # 0
              /\ listings >= 1 => workspace_id # 0
              /\ script = "report" => (listings >= 1 /\ workspace_id # 0)
      ]_vars

(* C22 as stated: the workspace-list request is sent only with a token, no      *)
(* upload request is sent before the workspace is resolved, and a run in which  *)
(* authentication or resolution failed has sent no upload request at all.       *)
C22_NoUploadWhenAuthenticationFailed ==
    /\ StagesInOrder
    /\ []((AuthenticationFailed \/ ResolutionFailed) => steps = <<>>)

(* C22, amended: the workspace-list request is sent only with a token, no       *)
(* upload request is sent before the workspace is resolved, no upload request   *)
(* is sent in or after a step in which authentication or resolution fails, and  *)
(* a run that never obtained a token or did not resolve its workspace has sent  *)
(* no upload request at all.                                                    *)
C22_AuthenticateResolvePublish ==
    /\ StagesInOrder
    /\ [][(AuthenticationFails \/ ResolutionFails) => steps' = steps]_vars
    /\ [][(AuthenticationFailed \/ ResolutionFailed) => steps' = steps]_vars
    /\ []((NoTokenObtained \/ ResolutionFailed) => steps = <<>>)

\* powerbi_publisher resolved the name with a fresh token and its upload was accepted.
C22_Witness ==
    /\ script = "publisher"
    /\ listings >= 1 /\ workspace_id # 0
    /\ access_token # 0
    /\ steps # <<>> /\ pc = "imported"

----------------------------------------------------------------------------
\* The last response of the run is a status answer 200 whose importState is
\* neither "Succeeded" nor "Failed" (or is not there at all).
NonTerminalFetched ==
    \E st \in ImportStates \ {"Succeeded", "Failed"} : StatusFetched(st)

(* C23: an importState other than "Succeeded" and "Failed" (Importing,          *)
(* Publishing, Unknown, or none at all) does not end polling: the loop sleeps   *)
(* one interval and then fetches again unless the timeout has passed, and       *)
(* polling that ends with such a state as its last answer ends with the timeout *)
(* error.                                                                       *)
C23_OtherStatesKeepPolling ==
    /\ [][/\ (NonTerminalFetched /\ pc = "poll_decide") =>
               (pc' = "poll_sleep" /\ now' = now /\ fetches' = fetches
                  /\ wait_result' = wait_result /\ result' = NotEnded)
          /\ (NonTerminalFetched /\ pc = "poll_sleep") =>
               (pc' = "poll_check" /\ now' = now + PollPause(script)
                  /\ fetches' = fetches /\ result' = NotEnded)
          /\ (NonTerminalFetched /\ pc = "poll_check") =>
               IF now - start_time < timeout
               THEN pc' = "poll_fetch" /\ result' = NotEnded
               ELSE wait_result' = Raised("TimeoutError")
         ]_vars
    /\ [](NonTerminalFetched => wait_result.kind # "return")
    /\ []((NonTerminalFetched /\ wait_result.kind = "raise" /\ ~AuthenticationFailed)
            => wait_result = Raised("TimeoutError"))

\* Two polls found no importState in the record, and the timeout ended polling.
C23_Witness ==
    /\ NonTerminalFetched
    /\ response.body.importState = "missing"
    /\ fetches >= 2
    /\ wait_result = Raised("TimeoutError")

----------------------------------------------------------------------------
\* The endpoint e lies in the scope of the workspace wid: un-scoped when there
\* is no identifier, under /groups/{wid} when there is one.
InScope(e, wid) == IF wid = 0 THEN ~e.scoped ELSE e.scoped /\ e.group = wid

(* C24: within one run of powerbi_publisher every request of the workflow (the  *)
(* import POST, the temporary-location POST, the import of the blob, every      *)
(* status poll) goes to the same workspace scope: the un-scoped endpoints when  *)
(* the workspace identifier is absent, the /groups/{id} endpoints of that one   *)
(* identifier when it is present.                                               *)
C24_OneWorkspaceScope ==
    /\ [](script = "publisher" => \A e \in targets : InScope(e, workspace_id))
    /\ [][targets # {} => workspace_id' = workspace_id]_vars

\* A staged upload into a resolved workspace, polled twice: three endpoints,
\* all of them under /groups/{id} of the resolved identifier.
C24_Witness ==
    /\ script = "publisher"
    /\ listings >= 1 /\ workspace_id # 0
    /\ steps = StagedOrder
    /\ fetches >= 2
    /\ Cardinality(targets) = 3
    /\ \A e \in targets : e.scoped /\ e.group = workspace_id

----------------------------------------------------------------------------
\* The last attempt the helper may make was made and was answered 429.
LastAttemptRateLimited ==
    Len(mr_log) = max_retries /\ RateLimited(mr_log[max_retries])

\* The Retry-After of the answer e can be slept: there is none, or it is a
\* non-negative integer.
WaitKnown(e) ==
    \/ e.retry_after.kind = "absent"
    \/ e.retry_after.kind = "int" /\ e.retry_after.value >= 0

(* C25 as stated: _make_request never makes more than 3 attempts for one call,  *)
(* and whenever the third attempt is answered 429 the call ends with the        *)
(* generic 'Max retries exceeded' error, after the third wait was slept; the    *)
(* 429 response is not returned.                                                *)
C25_ThirdRateLimitEndsGeneric ==
    /\ Len(mr_log) <= max_retries
    /\ LastAttemptRateLimited =>
           /\ result = Ended(1, "MaxRetriesExceeded")
           /\ mr_log[max_retries].slept
    /\ HelperReturned => ~RateLimited(response)

(* C25, amended: _make_request never makes more than 3 attempts for one call,   *)
(* whatever the order of 429 responses and network exceptions. When the third   *)
(* attempt is answered 429 and its Retry-After is absent or a non-negative      *)
(* integer, the call sleeps that third wait and then ends with the generic      *)
(* 'Max retries exceeded' error; when its Retry-After is anything else the call *)
(* ends with ValueError without a sleep. The 429 response is never returned.    *)
C25_AtMostThreeAttempts ==
    /\ [](Len(mr_log) <= max_retries)
    /\ []((LastAttemptRateLimited /\ WaitKnown(mr_log[max_retries])) =>
            /\ pc = "done" /\ result = Ended(1, "MaxRetriesExceeded")
            /\ mr_log[max_retries].slept
            /\ mr_log[max_retries].wait = PrescribedWait(mr_log[max_retries], max_retries))
    /\ []((LastAttemptRateLimited /\ ~WaitKnown(mr_log[max_retries])) =>
            /\ pc = "done" /\ result = Ended(1, "ValueError")
            /\ ~mr_log[max_retries].slept)
    /\ [][(Len(mr_log) = max_retries - 1 /\ Len(mr_log') = max_retries
             /\ RateLimited(response') /\ WaitKnown(mr_log'[max_retries])) =>
            /\ now' = now + PrescribedWait(mr_log'[max_retries], max_retries)
            /\ result' = Ended(1, "MaxRetriesExceeded")]_vars
    /\ [](HelperReturned => ~RateLimited(response))

\* A network exception, then two 429 responses: the third wait was slept and
\* the call ended with the generic error.
C25_Witness ==
    /\ Len(mr_log) = max_retries
    /\ NetworkFailed(mr_log[1])
    /\ RateLimited(mr_log[2]) /\ RateLimited(mr_log[3])
    /\ mr_log[3].slept /\ mr_log[3].wait > 0
    /\ result = Ended(1, "MaxRetriesExceeded")

----------------------------------------------------------------------------
\* The artifact f is there and is named *.pbix, in whatever letter case.
IsPbixFile(f) == f.exists /\ EqualIgnoringCase(f.suffix, <<".", "p", "b", "i", "x">>)

\* What a run has put on the network: token exchanges, calls of the
\* authenticator, workspace listings, upload requests, status fetches.
network == <<exchanges, auth_calls, auth_requests, listings, steps, fetches,
             targets, access_token, token_expiry>>

(* C26: import_pbix and publish_report look at the artifact before they touch   *)
(* the network: when the file is not there, or its suffix is not .pbix in any   *)
(* letter case, the call fails with FileNotFoundError or ValueError and has     *)
(* made no HTTP request and no token exchange; a file that is there and named   *)
(* *.pbix in any letter case passes.                                            *)
C26_ValidatedBeforeNetwork ==
    [][pc = "start" =>
         /\ network' = network
         /\ IF IsPbixFile(file')
            THEN pc' \in {"direct_post", "temp_location"} /\ result' = NotEnded
            ELSE /\ pc' = "done"
                 /\ result' = Ended(1, IF file'.exists THEN "ValueError"
                                       ELSE "FileNotFoundError")
      ]_vars

\* import_pbix refused a file named *.txt after the workspace was resolved:
\* nothing was uploaded.
C26_Witness ==
    /\ script = "publisher"
    /\ file.exists /\ file.suffix = DotTxt
    /\ result = Ended(1, "ValueError")
    /\ listings = 1 /\ auth_requests = 1 /\ steps = <<>>

----------------------------------------------------------------------------
\* The answer r is a well-formed response whose status is not 200.
NotOk(r) == r.kind = "http" /\ r.status_code # 200

\* The answer r is one _make_request of publish_powerbi_report keeps to itself:
\* a 429, which it retries.
HelperRetries(r) == script = "report" /\ r.kind = "http" /\ r.status_code = 429

\* This step receives the answer to a status fetch.
StatusAnswered == fetches' = fetches + 1

\* Polling aborts on the status answer the step has received (in
\* publish_powerbi_report through the return of _make_request): no sleep, no
\* further fetch, and the error is that of the refused answer.
AbortsOnAnswer ==
    /\ now' = now
    /\ \/ wait_result' = Raised("StatusError") /\ result' = Ended(1, "StatusError")
       \/ script = "report" /\ pc' = "poll_response" /\ wait_result' = wait_result

\* The loop has the refused answer in hand and raises on it.
RaisesOnAnswer ==
    (pc = "poll_response" /\ NotOk(response)) =>
        /\ now' = now /\ fetches' = fetches
        /\ wait_result' = Raised("StatusError") /\ result' = Ended(1, "StatusError")

(* C27 as stated: a well-formed non-200 answer to a status fetch aborts polling *)
(* on that poll, with no sleep and no further fetch, and with an error that is  *)
(* neither the import-failed nor the timeout outcome.                           *)
C27_NonOkStatusAborts ==
    [][/\ (StatusAnswered /\ NotOk(response')) => AbortsOnAnswer
       /\ RaisesOnAnswer
      ]_vars

(* C27, amended: a well-formed non-200 answer to a status fetch aborts polling  *)
(* on that poll, with no sleep and no further fetch, and with an error that is  *)
(* neither the import-failed nor the timeout outcome; except that in            *)
(* publish_powerbi_report a 429 answer is retried by the request helper after   *)
(* its wait, and polling aborts only when the helper gives up.                  *)
C27_NonOkStatusAbortsUnlessRetried ==
    /\ [][/\ (StatusAnswered /\ NotOk(response') /\ ~HelperRetries(response'))
               => AbortsOnAnswer
          /\ RaisesOnAnswer
          /\ (StatusAnswered /\ HelperRetries(response')) =>
               \/ pc' = "poll_fetch" /\ now' > now /\ result' = NotEnded
               \/ pc' = "done" /\ result'.code = 1
                    /\ result'.error \in {"MaxRetriesExceeded", "ValueError"}
         ]_vars
    /\ []((fetches > 0 /\ NotOk(response) /\ wait_result.kind = "raise") =>
            wait_result.error \notin {"ImportFailed", "TimeoutError"})

\* The second poll was answered 500 and ended polling at once.
C27_Witness ==
    /\ fetches = 2
    /\ response.kind = "http" /\ response.status_code = 500
    /\ wait_result = Raised("StatusError")
    /\ now - start_time = PollPause(script)

----------------------------------------------------------------------------
(* C28: in main of powerbi_publisher, when the response of an accepted upload   *)
(* carries no operation identifier, the run makes no status poll and ends with  *)
(* exit status 0; polling starts only with the identifier the response carried. *)
C28_NoIdentifierNoPolling ==
    /\ [][(script = "publisher" /\ pc' = "imported") =>
            (response'.status_code \in {200, 201, 202} /\ import_id' = response'.id)]_vars
    /\ [][(script = "publisher" /\ pc = "imported" /\ import_id = 0) =>
            /\ pc' = "done" /\ result' = Ended(0, "none")
            /\ fetches' = 0 /\ now' = now
            /\ wait_result' = Running]_vars
    /\ []((script = "publisher" /\ import_id = 0) => (~PollingStarted /\ fetches = 0))
    /\ []((script = "publisher" /\ PollingStarted) => import_id # 0)

\* The staged upload was accepted with no identifier in the response: the run
\* ended with status 0 and never asked for the status.
C28_Witness ==
    /\ script = "publisher"
    /\ steps = StagedOrder
    /\ response.kind = "http" /\ response.status_code = 202 /\ response.id = 0
    /\ import_id = 0
    /\ pc = "done" /\ result = Ended(0, "none")
    /\ fetches = 0 /\ auth_requests = 2

----------------------------------------------------------------------------
(* C29: polling with a timeout of 0 or less makes no status fetch and ends with *)
(* the timeout error; with a positive timeout the first status fetch is made    *)
(* before the timeout error can be raised.                                      *)
C29_TimeoutZeroNeverFetches ==
    /\ []((PollingStarted /\ timeout <= 0) =>
            /\ fetches = 0
            /\ pc \in {"poll_check", "done"}
            /\ pc = "done" => result = Ended(1, "TimeoutError"))
    /\ [][(pc = "poll_check" /\ timeout <= 0) =>
            /\ wait_result' = Raised("TimeoutError")
            /\ result' = Ended(1, "TimeoutError")
            /\ fetches' = 0 /\ now' = now]_vars
    /\ [][(pc = "poll_check" /\ timeout > 0 /\ fetches = 0) =>
            (pc' = "poll_fetch" /\ result' = NotEnded)]_vars
    /\ []((wait_result = Raised("TimeoutError") /\ timeout > 0) => fetches >= 1)

\* Polling with timeout 0 ended with the timeout error at the time it started,
\* without a status fetch.
C29_Witness ==
    /\ import_id # 0
    /\ timeout = 0
    /\ wait_result = Raised("TimeoutError")
    /\ fetches = 0 /\ now = start_time
    /\ result = Ended(1, "TimeoutError")

----------------------------------------------------------------------------
\* This step is a call of get_token whose exchange the identity endpoint accepts.
ExchangeSucceeds ==
    /\ auth_calls' = auth_calls + 1
    /\ token_call'.answer.kind = "ok"

\* The lifetime the identity endpoint reported in the answer a, 3600 s when it
\* reported none.
ReportedLifetime(a) == IF a.has_expires_in THEN a.expires_in ELSE 3600

(* C30: the cache of PowerBIAuth is consistent after any sequence of get_token  *)
(* calls: the token is unset as long as no exchange has succeeded and set ever  *)
(* after, the token and its expiry change in no step but a successful exchange, *)
(* and that step sets the expiry to the time of the exchange plus the reported  *)
(* lifetime, 3600 seconds when none is reported.                                *)
C30_CacheConsistent ==
    /\ [](script = "publisher" =>
            /\ exchanges = 0 => access_token = 0
            /\ access_token = 0 => token_expiry = 0)
    /\ [][script = "publisher" =>
            IF ExchangeSucceeds
            THEN /\ access_token' # 0
                 /\ token_expiry' = now + ReportedLifetime(token_call'.answer)
            ELSE /\ access_token' = access_token
                 /\ token_expiry' = token_expiry
         ]_vars

\* A second exchange, its answer without expires_in, replaced the token and
\* set the expiry 3600 s after the call.
C30_Witness ==
    /\ script = "publisher"
    /\ token_call.made /\ token_call.had_token # 0
    /\ token_call.answer.kind = "ok" /\ ~token_call.answer.has_expires_in
    /\ access_token # token_call.had_token
    /\ token_expiry = token_call.at + 3600
    /\ token_expiry # token_call.had_expiry

----------------------------------------------------------------------------
\* publish_report has taken its trailing branch: _wait_for_import returned a
\* record and the run ended with an error all the same.
TrailingImportFailed ==
    /\ script = "report"
    /\ wait_result.kind = "return"
    /\ result.kind = "exit" /\ result.code # 0

(* C31: publish_report returns a status record only in state "Succeeded":       *)
(* _wait_for_import returns on "Succeeded" alone and raises otherwise, so the   *)
(* record publish_report tests is always in that state and its trailing         *)
(* 'Import failed' branch is never taken, whatever the remote answers.          *)
C31_TrailingBranchUnreachable ==
    /\ [](script = "report" /\ wait_result.kind = "return" =>
            wait_result.value.importState = "Succeeded")
    /\ [](~TrailingImportFailed)
    /\ [][(script = "report" /\ pc = "wait_returned") =>
            (pc' = "done" /\ result' = Ended(0, "none"))]_vars
    /\ []((script = "report" /\ result.error = "ImportFailed") =>
            (wait_result = Raised("ImportFailed") /\ StatusFetched("Failed")))
    /\ []((script = "report" /\ result = Ended(0, "none")) =>
            (wait_result.kind = "return" /\ StatusFetched("Succeeded")))

\* publish_report returned the "Succeeded" record of a later poll, after a
\* sleep, and main ended with status 0.
C31_Witness ==
    /\ script = "report"
    /\ pc = "done" /\ result = Ended(0, "none")
    /\ wait_result.kind = "return"
    /\ wait_result.value.importState = "Succeeded"
    /\ fetches >= 2 /\ now > start_time

====
